---- MODULE Spec2Model ----
(***************************************************************************)
(* Image -> G-code conversion (gcode.go) and raster classification         *)
(* (loader, two revisions kept as unnamed/part_002 and unnamed/part_003).  *)
(*                                                                         *)
(* Specifications:                                                         *)
(*   SpecSimplify  simplifyPath applied to bounded point lists             *)
(*   SpecConvert   ConvertToGCode on small binary images, step by step     *)
(*   SpecRaster    processRasterImage, both revisions, run twice per image *)
(*   SpecZigZag    fillOptimizedZigZag on regions of at least 200 points   *)
(***************************************************************************)
EXTENDS Integers, Sequences, FiniteSets, TLC

VARIABLES
    \* ---- simplifyPath applied to one input ----
    inPoints,      \* the []Point handed to simplifyPath
    tolerance,     \* its tolerance argument
    simplified,    \* the returned slice
    spc            \* "ready" before the call, "done" after it

varsSimplify == <<inPoints, tolerance, simplified, spc>>

VARIABLES
    \* ---- ConvertToGCode on one image ----
    img,           \* the image: [w, h, dark, fg, bg] (see At)
    params,        \* [targetWidth, targetHeight, offset, threshold]
    pc,            \* position in ConvertToGCode and its callees
    visited,       \* the visited grid of the running pass: the points set true
    scanX, scanY,  \* loop variables x, y of the running pass's scan
    cur,           \* path.points of tracePath / region.points of floodFill
    queue,         \* floodFill's queue
    paths,         \* outlines, as returned by extractOutlinePaths
    regions,       \* fillAreas, as returned by extractFillRegions
    sb,            \* the strings.Builder: the commands written so far
    idx            \* index of the emission loops (lines 23 and 45)

varsConvert == <<img, params, pc, visited, scanX, scanY, cur, queue, paths,
                 regions, sb, idx>>

VARIABLES
    \* ---- processRasterImage on one decoded image, run twice ----
    src,             \* the pixels of the image in scan order, as Color.RGBA()
    revision,        \* which revision of the loader runs
    rpc,             \* position in processRasterImage
    colorHistogram,  \* quantized colour -> pixel count
    counts,          \* [total, dark]: totalCount and darkCount
    dominantColors,  \* what findDominantColors returned
    dst,             \* the gray image: one intensity per pixel
    run,             \* 1 for the first run over src, 2 for the second
    prevDominant,    \* dominantColors of the first run
    prevDst          \* dst of the first run

varsRaster == <<src, revision, rpc, colorHistogram, counts, dominantColors,
                dst, run, prevDominant, prevDst>>

VARIABLES
    \* ---- fillOptimizedZigZag on one region ----
    zPoints,     \* region.points
    zIm,         \* [w, h]: the image's size, for the scale
    zPr,         \* the transform parameters
    zBox,        \* minX, minY, maxX, maxY as getBoundingBox returned them
    zY,          \* the loop variable y of line 309
    zLines,      \* the scanlines processed so far: [y, fromRight]
    zSegments,   \* the segments built so far: [startX, endX, y, fromRight, emitted]
    zOut,        \* the lines written to sb
    zpc          \* position in the call

varsZigZag == <<zPoints, zIm, zPr, zBox, zY, zLines, zSegments, zOut, zpc>>

vars == <<varsSimplify, varsConvert, varsRaster, varsZigZag>>

\* ------------------------------------------------------------------------
\* Bounds of the model
\* ------------------------------------------------------------------------
MaxLen   == 4     \* longest point list handed to simplifyPath
MaxCoord == 2     \* coordinates of those points range over 0..MaxCoord
MaxTol   == 2     \* tolerances range over 0..MaxTol
SmallW   == 3     \* small images are at most SmallW wide and high ...
SmallArea == 9    \* ... and hold at most SmallArea pixels
RectGrid == 6     \* side of the grid that holds one rectangle
MaxRuns  == 3     \* a raster image is at most MaxRuns runs of one colour ...
MaxRun   == 2     \* ... each of 1 or MaxRun pixels
ZWidth   == 32    \* width of the regions handed to fillOptimizedZigZag
ZLines   == 3     \* number of scanlines that cross such a region

\* ------------------------------------------------------------------------
\* Small helpers
\* ------------------------------------------------------------------------
Abs(n) == IF n < 0 THEN -n ELSE n

Last(s) == s[Len(s)]

Pt(x, y) == [x |-> x, y |-> y]

RECURSIVE Concat(_)
Concat(ss) == IF ss = <<>> THEN <<>> ELSE Head(ss) \o Concat(Tail(ss))

SeqToSet(s) == {s[i] : i \in 1..Len(s)}

\* ------------------------------------------------------------------------
\* simplifyPath (gcode.go 66-87)
\* ------------------------------------------------------------------------
\* The test of line 76: current is farther than tolerance from prev on
\* some axis.
exceedsTolerance(current, prev, tol) ==
    Abs(current.x - prev.x) > tol \/ Abs(current.y - prev.y) > tol

\* The loop of lines 74-80, from index i on, with the result kept so far and
\* the last kept point.
RECURSIVE simplifyLoop(_, _, _, _, _)
simplifyLoop(pts, tol, i, res, prev) ==
    IF i > Len(pts) THEN res
    ELSE IF exceedsTolerance(pts[i], prev, tol)
         THEN simplifyLoop(pts, tol, i + 1, Append(res, pts[i]), pts[i])
         ELSE simplifyLoop(pts, tol, i + 1, res, prev)

\* The guard of line 82 under which the final point is appended.
appendsFinal(res, pts) ==
    Len(res) > 1 /\ (Last(res).x # Last(pts).x \/ Last(res).y # Last(pts).y)

simplifyPath(pts, tol) ==
    IF Len(pts) < 3 THEN pts
    ELSE LET res == simplifyLoop(pts, tol, 2, <<pts[1]>>, pts[1])
         IN  IF appendsFinal(res, pts) THEN Append(res, Last(pts)) ELSE res

\* ------------------------------------------------------------------------
\* The image and its gray levels (gcode.go 361-367)
\* ------------------------------------------------------------------------
\* An image is a w x h grid in two colours: the pixels of img.dark have the
\* colour img.fg, the others img.bg.  A colour is what Color.RGBA() returns
\* for it, <<r, g, b>> with 16-bit channels.
At(im, x, y) == IF Pt(x, y) \in im.dark THEN im.fg ELSE im.bg

\* uint8(c >> 8)
Chan8(c) == (c \div 256) % 256

getGrayscale(im, x, y) ==
    LET c == At(im, x, y)
    IN  (299 * Chan8(c[1]) + 587 * Chan8(c[2]) + 114 * Chan8(c[3])) \div 1000

\* The background cutoff of lines 106, 140, 159, 175, 214 and 261 (the
\* threshold parameter is never read).
BackgroundCutoff == 230

\* Mutant: a pixel exactly at the cutoff counts as dark.
isBackground_aboveCutoff(gray) == gray > BackgroundCutoff

isBackground(gray) == gray >= BackgroundCutoff

inBounds(im, x, y) == x >= 0 /\ y >= 0 /\ x < im.w /\ y < im.h

\* The direction tables of lines 163-166 and 190-193 (8) and 242-244 (4).
directions8 ==
    << <<-1, 0>>, <<1, 0>>, <<0, -1>>, <<0, 1>>,
       <<-1, -1>>, <<-1, 1>>, <<1, -1>>, <<1, 1>> >>

directions4 == << <<-1, 0>>, <<1, 0>>, <<0, -1>>, <<0, 1>> >>

\* isEdgePixel (157-181): a dark pixel with an 8-neighbour that is outside
\* the grid or background.  The loop returns true at the first such
\* neighbour, so the order of the table does not matter here.
isEdgePixel(im, x, y) ==
    /\ ~isBackground(getGrayscale(im, x, y))
    /\ \E i \in 1..Len(directions8) :
          LET nx == x + directions8[i][1]
              ny == y + directions8[i][2]
          IN  \/ ~inBounds(im, nx, ny)
              \/ isBackground(getGrayscale(im, nx, ny))

\* ------------------------------------------------------------------------
\* tracePath (gcode.go 183-232)
\* ------------------------------------------------------------------------
\* math.Hypot(dx, dy) for a step of the direction table is 1 or sqrt(2); the
\* code only compares these distances, so the model keeps their squares.
hypotSq(dx, dy) == dx * dx + dy * dy

NoBest == 1000000  \* stands for math.MaxFloat64 (line 200)

\* Mutant: a candidate as near as the best so far replaces it.
isNearer_orEqual(dist, bestDistance) == dist <= bestDistance

\* Line 216: the candidate is strictly nearer than the best so far.
isNearer(dist, bestDistance) == dist < bestDistance

\* Mutant: the visited test of lines 209-211 is missing.
traceCandidate_revisits(im, vis, nx, ny) ==
    /\ inBounds(im, nx, ny)
    /\ ~isBackground(getGrayscale(im, nx, ny))
    /\ isEdgePixel(im, nx, ny)

\* A candidate of line 214: inside the grid, not visited, dark and an edge.
traceCandidate(im, vis, nx, ny) ==
    /\ inBounds(im, nx, ny)
    /\ Pt(nx, ny) \notin vis
    /\ ~isBackground(getGrayscale(im, nx, ny))
    /\ isEdgePixel(im, nx, ny)

\* The loop of lines 203-222 from direction i on: best is
\* [found, dist, x, y] so far; a candidate replaces it only when strictly
\* nearer (line 216).
RECURSIVE traceScan(_, _, _, _, _, _, _)
traceScan(im, vis, x, y, dirs, i, best) ==
    IF i > Len(dirs) THEN best
    ELSE LET nx == x + dirs[i][1]
             ny == y + dirs[i][2]
             dist == hypotSq(nx - x, ny - y)
         IN  IF traceCandidate(im, vis, nx, ny) /\ isNearer(dist, best.dist)
             THEN traceScan(im, vis, x, y, dirs, i + 1,
                            [found |-> TRUE, dist |-> dist, x |-> nx, y |-> ny])
             ELSE traceScan(im, vis, x, y, dirs, i + 1, best)

traceNext(im, vis, x, y) ==
    traceScan(im, vis, x, y, directions8, 1,
              [found |-> FALSE, dist |-> NoBest, x |-> 0, y |-> 0])

\* ------------------------------------------------------------------------
\* floodFill (gcode.go 234-270)
\* ------------------------------------------------------------------------
\* Mutant: the flood fill takes interior pixels only.
floodTakes_interiorOnly(im, vis, nx, ny) ==
    /\ inBounds(im, nx, ny)
    /\ Pt(nx, ny) \notin vis
    /\ ~isBackground(getGrayscale(im, nx, ny))
    /\ ~isEdgePixel(im, nx, ny)

\* A neighbour taken by lines 252-261: inside the grid, not visited, dark.
floodTakes(im, vis, nx, ny) ==
    /\ inBounds(im, nx, ny)
    /\ Pt(nx, ny) \notin vis
    /\ ~isBackground(getGrayscale(im, nx, ny))

\* The loop of lines 250-266 around curr, from direction i on: st is
\* [added, vis], the points appended to region.points and to the queue so
\* far and the visited grid.
RECURSIVE floodExpand(_, _, _, _)
floodExpand(im, curr, i, st) ==
    IF i > Len(directions4) THEN st
    ELSE LET nx == curr.x + directions4[i][1]
             ny == curr.y + directions4[i][2]
         IN  IF floodTakes(im, st.vis, nx, ny)
             THEN floodExpand(im, curr, i + 1,
                              [added |-> Append(st.added, Pt(nx, ny)),
                               vis |-> st.vis \cup {Pt(nx, ny)}])
             ELSE floodExpand(im, curr, i + 1, st)

\* ------------------------------------------------------------------------
\* The emitted program (gcode.go 17-18, 28-41, 54, 350-356)
\* ------------------------------------------------------------------------
\* One line of the program.  x and y are the coordinates as printed by
\* %.3f, in thousandths; they are 0 on lines that carry no coordinates.
Cmd(op, x, y) == [op |-> op, x |-> x, y |-> y]

Preamble ==
    << Cmd("G21", 0, 0), Cmd("G90", 0, 0), Cmd("M5", 0, 0),
       Cmd("G0 F3000", 0, 0), Cmd("G1 F1500", 0, 0) >>

Postamble == << Cmd("M5", 0, 0), Cmd("G0", 0, 0) >>

\* fmt.Sprintf("%.3f", offset + float64(k)*scale) with scale = target/dim
\* (lines 14-15, 33-34, 350-352), in thousandths: the exact value
\* offset + k*target/dim rounded to the nearest thousandth, an exact tie
\* going to the even neighbour as strconv does.  offset and target are whole
\* non-negative numbers here.
Fmt3(offset, k, target, dim) ==
    LET num == 1000 * (offset * dim + k * target)
        q   == num \div dim
        r   == num % dim
    IN  IF 2 * r < dim THEN q
        ELSE IF 2 * r > dim THEN q + 1
        ELSE IF q % 2 = 0 THEN q ELSE q + 1

\* Point k of the simplified path (lines 32-41).
pathLine(pt, first, im, pr) ==
    LET x == Fmt3(pr.offset, pt.x, pr.targetWidth, im.w)
        y == Fmt3(pr.offset, pt.y, pr.targetHeight, im.h)
    IN  IF first THEN << Cmd("G0", x, y), Cmd("M3 S1000", 0, 0) >>
        ELSE << Cmd("G1", x, y) >>

MinPathPoints == 5      \* line 24
SimplifyTolerance == 1  \* line 30

\* One iteration of the loop of lines 23-43.
emitPath(path, im, pr) ==
    IF Len(path) < MinPathPoints THEN <<>>
    ELSE LET sp == simplifyPath(path, SimplifyTolerance)
         IN  << Cmd("M5", 0, 0) >> \o
             Concat([k \in 1..Len(sp) |-> pathLine(sp[k], k = 1, im, pr)])

\* ------------------------------------------------------------------------
\* getBoundingBox (gcode.go 272-296)
\* ------------------------------------------------------------------------
SetMin(S) == CHOOSE m \in S : \A n \in S : m <= n
SetMax(S) == CHOOSE m \in S : \A n \in S : m >= n

getBoundingBox(pts) ==
    IF Len(pts) = 0 THEN [minX |-> 0, minY |-> 0, maxX |-> 0, maxY |-> 0]
    ELSE [minX |-> SetMin({pts[i].x : i \in 1..Len(pts)}),
          minY |-> SetMin({pts[i].y : i \in 1..Len(pts)}),
          maxX |-> SetMax({pts[i].x : i \in 1..Len(pts)}),
          maxY |-> SetMax({pts[i].y : i \in 1..Len(pts)})]

\* ------------------------------------------------------------------------
\* fillOptimizedZigZag (gcode.go 298-359)
\* ------------------------------------------------------------------------
\* pointMap of lines 299-305: row -> the set of x set true in it.
pointMap(pts) ==
    [y \in {pts[i].y : i \in 1..Len(pts)} |->
        {pts[i].x : i \in {j \in 1..Len(pts) : pts[j].y = y}}]

\* pointMap[y] != nil && pointMap[y][x]
hasPoint(pm, y, x) == y \in DOMAIN pm /\ x \in pm[y]

Seg(startX, endX) == [startX |-> startX, endX |-> endX]

NoSegment == -1   \* startSegment's "no open run" value (line 313)

\* Mutant: the run closed in a right-to-left scan starts one pixel early.
closeFromRight_offByOne(x, startSegment) == Seg(x, startSegment)

\* Line 322: the run that ended right of the non-member pixel x.
closeFromRight(x, startSegment) == Seg(x + 1, startSegment)

\* Line 336: the run that ended left of the non-member pixel x.
closeFromLeft(x, startSegment) == Seg(startSegment, x - 1)

\* Lines 316-328: x runs from maxX down to minX.
RECURSIVE scanFromRight(_, _, _, _, _, _)
scanFromRight(pm, y, x, minX, startSegment, segments) ==
    IF x < minX
    THEN IF startSegment # NoSegment
         THEN Append(segments, Seg(minX, startSegment))
         ELSE segments
    ELSE IF hasPoint(pm, y, x)
         THEN scanFromRight(pm, y, x - 1, minX,
                            IF startSegment = NoSegment THEN x ELSE startSegment,
                            segments)
         ELSE IF startSegment # NoSegment
              THEN scanFromRight(pm, y, x - 1, minX, NoSegment,
                                 Append(segments, closeFromRight(x, startSegment)))
              ELSE scanFromRight(pm, y, x - 1, minX, startSegment, segments)

\* Lines 330-342: x runs from minX up to maxX.
RECURSIVE scanFromLeft(_, _, _, _, _, _)
scanFromLeft(pm, y, x, maxX, startSegment, segments) ==
    IF x > maxX
    THEN IF startSegment # NoSegment
         THEN Append(segments, Seg(startSegment, maxX))
         ELSE segments
    ELSE IF hasPoint(pm, y, x)
         THEN scanFromLeft(pm, y, x + 1, maxX,
                           IF startSegment = NoSegment THEN x ELSE startSegment,
                           segments)
         ELSE IF startSegment # NoSegment
              THEN scanFromLeft(pm, y, x + 1, maxX, NoSegment,
                                Append(segments, closeFromLeft(x, startSegment)))
              ELSE scanFromLeft(pm, y, x + 1, maxX, startSegment, segments)

LineSpacing == 3       \* line 307
MinSegmentSpan == 3    \* line 346

\* Mutant: the parity is taken of the scanline's number modulo the spacing.
fromRightAt_neverFlips(y, minY) == (y - minY) % LineSpacing = 1

\* Line 310.
fromRightAt(y, minY) == (y - minY) % 2 = 1

\* The segments of scanline y (lines 310-343).
lineSegments(pm, y, box) ==
    IF fromRightAt(y, box.minY)
    THEN scanFromRight(pm, y, box.maxX, box.minX, NoSegment, <<>>)
    ELSE scanFromLeft(pm, y, box.minX, box.maxX, NoSegment, <<>>)

\* Line 346: the segment is written.
segmentEmitted(seg) == ~(seg.endX - seg.startX < MinSegmentSpan)

\* Lines 350-356 for one segment.
segmentLines(seg, y, im, pr) ==
    LET startX == Fmt3(pr.offset, seg.startX, pr.targetWidth, im.w)
        startY == Fmt3(pr.offset, y, pr.targetHeight, im.h)
        endX   == Fmt3(pr.offset, seg.endX, pr.targetWidth, im.w)
    IN  << Cmd("G0", startX, startY), Cmd("M3 S1000", 0, 0),
           Cmd("G1", endX, startY), Cmd("M5", 0, 0) >>

\* Lines 345-357 for the segments of one scanline.
emitSegments(segments, y, im, pr) ==
    Concat([k \in 1..Len(segments) |->
              IF segmentEmitted(segments[k])
              THEN segmentLines(segments[k], y, im, pr) ELSE <<>>])

\* The loop of line 309 from scanline y on.
RECURSIVE zigZagFrom(_, _, _, _, _)
zigZagFrom(pm, y, box, im, pr) ==
    IF y > box.maxY THEN <<>>
    ELSE emitSegments(lineSegments(pm, y, box), y, im, pr) \o
         zigZagFrom(pm, y + LineSpacing, box, im, pr)

fillOptimizedZigZag(box, pts, im, pr) ==
    zigZagFrom(pointMap(pts), box.minY, box, im, pr)

MinRegionPoints == 200   \* line 46

\* One iteration of the loop of lines 45-52.
emitRegion(region, im, pr) ==
    IF Len(region) < MinRegionPoints THEN <<>>
    ELSE fillOptimizedZigZag(getBoundingBox(region), region, im, pr)

\* ------------------------------------------------------------------------
\* processRasterImage and its helpers.  The loader is present in two
\* revisions: unnamed/part_002 (yellow-background inversion) and
\* unnamed/part_003 (nearest dominant colour); findDominantColors and
\* hasDistinctColorGroups are the same in both.
\* ------------------------------------------------------------------------
AlphaCutoff == 32768    \* 0x8000

\* c * 0xffff / a in uint32.  c is at most 0xffff, so the product is below
\* 2^32 and never wraps; the quotient is taken in two steps (0xffff =
\* 255 * 257) to keep every intermediate value within 31 bits.
unpremultiply(c, a) ==
    LET t == c * 255
    IN  (t \div a) * 257 + ((t % a) * 257) \div a

\* uint8(((299*r + 587*g + 114*b) / 1000) >> 8); the sum is below 2^32.
lumaGray(r, g, b) ==
    (((299 * r + 587 * g + 114 * b) \div 1000) \div 256) % 256

\* (r>>12)<<16 | (g>>12)<<8 | (b >> 12): the three fields do not overlap.
colorKeyOf(r, g, b) ==
    (r \div 4096) * 65536 + (g \div 4096) * 256 + (b \div 4096)

\* The pixel with its colour channels divided by alpha (a > 0).
straight(px) ==
    [r |-> unpremultiply(px[1], px[4]), g |-> unpremultiply(px[2], px[4]),
     b |-> unpremultiply(px[3], px[4])]

pixelKey(px) == LET c == straight(px) IN colorKeyOf(c.r, c.g, c.b)

pixelGray(px) == LET c == straight(px) IN lumaGray(c.r, c.g, c.b)

\* The pixels the first loop counts: alpha at or above the cutoff.
countedPixels(pixels) == {i \in 1..Len(pixels) : ~(pixels[i][4] < AlphaCutoff)}

\* colorHistogram after the first loop.
histogramOf(pixels) ==
    [k \in {pixelKey(pixels[i]) : i \in countedPixels(pixels)} |->
        Cardinality({i \in countedPixels(pixels) : pixelKey(pixels[i]) = k})]

\* darkCount after the first loop (part_002 148-149).
darkCountOf(pixels) ==
    Cardinality({i \in countedPixels(pixels) : pixelGray(pixels[i]) < 64})

\* The orders in which a range over the map may yield its keys.
iterationOrders(histogram) ==
    {f \in [1..Cardinality(DOMAIN histogram) -> DOMAIN histogram] :
        \A i, j \in DOMAIN f : i # j => f[i] # f[j]}

Bucket(color, count) == [color |-> color, count |-> count]

\* The comparison of the sort: colors[j].count > colors[i].count.
ranksBefore(cj, ci) == cj.count > ci.count

swap(colors, i, j) == [colors EXCEPT ![i] = colors[j], ![j] = colors[i]]

\* The inner loop over j (part_003 215-219), 1-based.
RECURSIVE sortInner(_, _, _)
sortInner(colors, i, j) ==
    IF j > Len(colors) THEN colors
    ELSE IF ranksBefore(colors[j], colors[i])
         THEN sortInner(swap(colors, i, j), i, j + 1)
         ELSE sortInner(colors, i, j + 1)

\* The outer loop over i (part_003 214-220).
RECURSIVE sortOuter(_, _)
sortOuter(colors, i) ==
    IF i > Len(colors) - 1 THEN colors
    ELSE sortOuter(sortInner(colors, i, i + 1), i + 1)

\* findDominantColors with the map yielding its keys in the given order.
findDominantColors(histogram, order, count) ==
    LET colors == [i \in 1..Len(order) |-> Bucket(order[i], histogram[order[i]])]
        sorted == sortOuter(colors, 1)
    IN  IF Len(sorted) > count THEN SubSeq(sorted, 1, count) ELSE sorted

DominantCount == 3      \* the count argument of findDominantColors

\* float64(c0 + c1) / float64(totalPixels) > 0.7
hasDistinctColorGroups(dominant, totalPixels) ==
    IF Len(dominant) < 2 THEN FALSE
    ELSE 10 * (dominant[1].count + dominant[2].count) > 7 * totalPixels

keyR(color) == (color \div 65536) % 256
keyG(color) == (color \div 256) % 256
keyB(color) == color % 256

\* isYellowDominant (part_002 256-270); with totalPixels = 0 the quotient is
\* NaN and the comparison false.
isYellowDominant(histogram, totalPixels) ==
    LET yellow == {k \in DOMAIN histogram :
                      /\ keyR(k) > 10 /\ keyG(k) > 10
                      /\ keyR(k) > keyB(k) * 2 /\ keyG(k) > keyB(k) * 2}
        RECURSIVE sum(_)
        sum(S) == IF S = {} THEN 0
                  ELSE LET k == CHOOSE k \in S : TRUE
                       IN  histogram[k] + sum(S \ {k})
    IN  2 * sum(yellow) > totalPixels

\* isColorSimilar (part_003 240-249).
isColorSimilar(c1, c2) ==
    /\ Abs(keyR(c1) - keyR(c2)) < 3
    /\ Abs(keyG(c1) - keyG(c2)) < 3
    /\ Abs(keyB(c1) - keyB(c2)) < 3

\* The brightness part_002 gives one pixel (166-203).
brightness002(px, distinct, inverseEngrave) ==
    IF px[4] = 0 THEN 255
    ELSE LET c == straight(px)
             isYellow == c.r \div 256 > 200 /\ c.g \div 256 > 180 /\ c.b \div 256 < 100
             isBlack  == c.r \div 256 < 60 /\ c.g \div 256 < 60 /\ c.b \div 256 < 60
             gray == lumaGray(c.r, c.g, c.b)
         IN  IF distinct /\ inverseEngrave
             THEN IF isYellow THEN 0
                  ELSE IF isBlack THEN 255
                  ELSE 255 - gray
             ELSE IF gray < 50 THEN 0
                  ELSE IF gray > 230 THEN 255
                  ELSE ((gray - 50) * 255) \div 180

\* processRasterImage of part_002 from line 158 on.
classify002(pixels, histogram, cnt, dominant) ==
    LET distinct == hasDistinctColorGroups(dominant, cnt.total)
        yellowIsBackground == isYellowDominant(histogram, cnt.total)
        blackIsFeature == cnt.dark < cnt.total \div 5
        inverseEngrave == yellowIsBackground /\ blackIsFeature
    IN  [i \in 1..Len(pixels) |-> brightness002(pixels[i], distinct, inverseEngrave)]

\* The brightness part_003 gives one pixel (166-191).
brightness003(px, distinct, dominantColor, secondaryColor) ==
    IF px[4] = 0 THEN 255
    ELSE LET key == pixelKey(px)
         IN  IF distinct
             THEN IF isColorSimilar(key, dominantColor) THEN 0
                  ELSE IF secondaryColor # 0 /\ isColorSimilar(key, secondaryColor)
                  THEN 127
                  ELSE 255
             ELSE IF pixelGray(px) < 128 THEN 0 ELSE 255

\* image.NewGray(bounds): every pixel 0.
newGray(pixels) == [i \in 1..Len(pixels) |-> 0]

\* processRasterImage of part_003 from line 150 on.
classify003(pixels, cnt, dominant) ==
    IF Len(dominant) = 0 THEN newGray(pixels)
    ELSE LET dominantColor == dominant[1].color
             secondaryColor == IF Len(dominant) > 1 THEN dominant[2].color ELSE 0
             distinct == hasDistinctColorGroups(dominant, cnt.total)
         IN  [i \in 1..Len(pixels) |->
                brightness003(pixels[i], distinct, dominantColor, secondaryColor)]

\* ------------------------------------------------------------------------
\* SpecSimplify: simplifyPath on every point list of length 1..MaxLen over
\* a (MaxCoord+1) x (MaxCoord+1) block, with every tolerance 0..MaxTol.
\* ------------------------------------------------------------------------
Coords == 0..MaxCoord

PointSet == {Pt(x, y) : x \in Coords, y \in Coords}

PointLists == UNION {[1..n -> PointSet] : n \in 1..MaxLen}

IdleSimplify ==
    /\ inPoints = <<>>
    /\ tolerance = 0
    /\ simplified = <<>>
    /\ spc = "idle"

IdleConvert ==
    /\ img = [w |-> 0, h |-> 0, dark |-> {}, fg |-> <<0, 0, 0>>, bg |-> <<0, 0, 0>>]
    /\ params = [targetWidth |-> 0, targetHeight |-> 0, offset |-> 0, threshold |-> 0]
    /\ pc = "idle"
    /\ visited = {}
    /\ scanX = 0
    /\ scanY = 0
    /\ cur = <<>>
    /\ queue = <<>>
    /\ paths = <<>>
    /\ regions = <<>>
    /\ sb = <<>>
    /\ idx = 0

IdleRaster ==
    /\ src = <<>>
    /\ revision = "none"
    /\ rpc = "idle"
    /\ colorHistogram = <<>>
    /\ counts = [total |-> 0, dark |-> 0]
    /\ dominantColors = <<>>
    /\ dst = <<>>
    /\ run = 0
    /\ prevDominant = <<>>
    /\ prevDst = <<>>

IdleZigZag ==
    /\ zPoints = <<>>
    /\ zIm = [w |-> 0, h |-> 0]
    /\ zPr = [targetWidth |-> 0, targetHeight |-> 0, offset |-> 0, threshold |-> 0]
    /\ zBox = [minX |-> 0, minY |-> 0, maxX |-> 0, maxY |-> 0]
    /\ zY = 0
    /\ zLines = <<>>
    /\ zSegments = <<>>
    /\ zOut = <<>>
    /\ zpc = "idle"

InitSimplify ==
    /\ IdleConvert
    /\ IdleRaster
    /\ IdleZigZag
    /\ inPoints \in PointLists
    /\ tolerance \in 0..MaxTol
    /\ simplified = <<>>
    /\ spc = "ready"

Simplify ==
    /\ spc = "ready"
    /\ simplified' = simplifyPath(inPoints, tolerance)
    /\ spc' = "done"
    /\ UNCHANGED <<inPoints, tolerance>>
    /\ UNCHANGED <<varsConvert, varsRaster, varsZigZag>>

NextSimplify == Simplify

SpecSimplify == InitSimplify /\ [][NextSimplify]_vars

\* ------------------------------------------------------------------------
\* SpecConvert: ConvertToGCode (gcode.go 10-56) run on one image, one step
\* per loop iteration of the two passes and of the two emission loops.
\* ------------------------------------------------------------------------
Black   == <<0, 0, 0>>
White   == <<65535, 65535, 65535>>
Gray229 == <<58853, 58853, 58853>>   \* 229 * 257: one below the cutoff
Gray230 == <<59110, 59110, 59110>>   \* 230 * 257: at the cutoff

Grid(w, h) == {Pt(x, y) : x \in 0..(w - 1), y \in 0..(h - 1)}

Rect(x0, y0, x1, y1) == {Pt(x, y) : x \in x0..x1, y \in y0..y1}

Image(w, h, dark, fg, bg) ==
    [w |-> w, h |-> h, dark |-> dark, fg |-> fg, bg |-> bg]

Params(tw, th, off) ==
    [targetWidth |-> tw, targetHeight |-> th, offset |-> off, threshold |-> 128]

\* Every two-colour image of at most SmallW x SmallW and SmallArea pixels,
\* in black on white and in the two grays that straddle the cutoff.
SmallDims == {d \in (1..SmallW) \X (1..SmallW) : d[1] * d[2] <= SmallArea}

SmallImages ==
    UNION {{Image(d[1], d[2], dk, c[1], c[2]) :
               dk \in SUBSET Grid(d[1], d[2]),
               c \in {<<Black, White>>, <<Gray229, Gray230>>}} :
           d \in SmallDims}

\* The second transform is tried on the black-on-white images only.
SmallInputs ==
    {inp \in SmallImages \X {Params(50, 50, 0), Params(100, 80, 10)} :
        inp[2].offset # 0 => inp[1].fg = Black}

\* One filled black rectangle with background all around it, on a white
\* RectGrid x RectGrid grid.
RectInputs ==
    {<<Image(RectGrid, RectGrid, Rect(x0, y0, x1, y1), Black, White),
       Params(50, 50, 0)>> :
        x0 \in 1..(RectGrid - 2), x1 \in 1..(RectGrid - 2),
        y0 \in 1..(RectGrid - 2), y1 \in 1..(RectGrid - 2)}
    \ {<<Image(RectGrid, RectGrid, {}, Black, White), Params(50, 50, 0)>>}

\* The end-to-end case of the specification: a 20x20 white grid with one
\* 10x10 black square, target 50x50, offset 0; and the same grid with a
\* 17x17 square, whose fill region is large enough to be filled.
E2E == [grid |-> 20, square |-> 10, big |-> 17, target |-> 50, offset |-> 0]

SquareInputs ==
    {<<Image(E2E.grid, E2E.grid, Rect(o[1], o[2], o[1] + n - 1, o[2] + n - 1),
             Black, White),
       Params(E2E.target, E2E.target, E2E.offset)>> :
        o \in {0, 3} \X {0, 3},
        n \in {E2E.square, E2E.big}}
    \cup
    {<<Image(E2E.grid, E2E.grid,
             Rect(o[1], o[2], o[1] + E2E.square - 1, o[2] + E2E.square - 1),
             Black, White),
       Params(E2E.target, E2E.target, E2E.offset)>> :
        o \in {5, 10} \X {5, 10}}

ConvertInputs == SmallInputs \cup RectInputs \cup SquareInputs

InitConvert ==
    /\ IdleSimplify
    /\ IdleRaster
    /\ IdleZigZag
    /\ \E inp \in ConvertInputs :
          /\ inp[1].w >= 1 /\ inp[1].h >= 1
          /\ img = inp[1]
          /\ params = inp[2]
    /\ pc = "start"
    /\ visited = {}
    /\ scanX = 0
    /\ scanY = 0
    /\ cur = <<>>
    /\ queue = <<>>
    /\ paths = <<>>
    /\ regions = <<>>
    /\ sb = <<>>
    /\ idx = 0

\* Lines 11-20 and 90-97: the preamble is written and the boundary pass
\* starts with a fresh visited grid.
Begin ==
    /\ pc = "start"
    /\ sb' = Preamble
    /\ pc' = "outline"
    /\ visited' = {}
    /\ scanX' = 0
    /\ scanY' = 0
    /\ UNCHANGED <<img, params, cur, queue, paths, regions, idx>>
    /\ UNCHANGED <<varsSimplify, varsRaster, varsZigZag>>

\* x++ of the inner scan loop, y++ of the outer one.
nextScanX == IF scanX + 1 < img.w THEN scanX + 1 ELSE 0
nextScanY == IF scanX + 1 < img.w THEN scanY ELSE scanY + 1

\* One iteration of the scan of extractOutlinePaths (lines 100-117) up to
\* the call of tracePath, whose first lines (184-188) it includes.
OutlineScan ==
    /\ pc = "outline"
    /\ scanY < img.h
    /\ IF Pt(scanX, scanY) \in visited
       THEN /\ scanX' = nextScanX /\ scanY' = nextScanY
            /\ UNCHANGED <<visited, cur, pc>>
       ELSE IF isBackground(getGrayscale(img, scanX, scanY))
       THEN /\ visited' = visited \cup {Pt(scanX, scanY)}
            /\ scanX' = nextScanX /\ scanY' = nextScanY
            /\ UNCHANGED <<cur, pc>>
       ELSE IF isEdgePixel(img, scanX, scanY)
       THEN /\ cur' = <<Pt(scanX, scanY)>>
            /\ visited' = visited \cup {Pt(scanX, scanY)}
            /\ pc' = "trace"
            /\ UNCHANGED <<scanX, scanY>>
       ELSE /\ visited' = visited \cup {Pt(scanX, scanY)}
            /\ scanX' = nextScanX /\ scanY' = nextScanY
            /\ UNCHANGED <<cur, pc>>
    /\ UNCHANGED <<img, params, queue, paths, regions, sb, idx>>
    /\ UNCHANGED <<varsSimplify, varsRaster, varsZigZag>>

\* One iteration of tracePath's loop (lines 198-229); when no next point is
\* found the path is returned and appended, the seed is marked (lines
\* 231, 113, 116) and the scan goes on.
TraceStep ==
    /\ pc = "trace"
    /\ LET nxt == traceNext(img, visited, Last(cur).x, Last(cur).y)
       IN  IF nxt.found
           THEN /\ cur' = Append(cur, Pt(nxt.x, nxt.y))
                /\ visited' = visited \cup {Pt(nxt.x, nxt.y)}
                /\ UNCHANGED <<paths, pc, scanX, scanY>>
           ELSE /\ paths' = Append(paths, cur)
                /\ cur' = <<>>
                /\ visited' = visited \cup {Pt(scanX, scanY)}
                /\ scanX' = nextScanX /\ scanY' = nextScanY
                /\ pc' = "outline"
    /\ UNCHANGED <<img, params, queue, regions, sb, idx>>
    /\ UNCHANGED <<varsSimplify, varsRaster, varsZigZag>>

\* Lines 120, 21 and 124-131: the boundary pass returns and the fill pass
\* starts with its own visited grid.
OutlineReturn ==
    /\ pc = "outline"
    /\ scanY >= img.h
    /\ pc' = "fill"
    /\ visited' = {}
    /\ scanX' = 0
    /\ scanY' = 0
    /\ UNCHANGED <<img, params, cur, queue, paths, regions, sb, idx>>
    /\ UNCHANGED <<varsSimplify, varsRaster, varsZigZag>>

\* One iteration of the scan of extractFillRegions (lines 134-151) up to the
\* call of floodFill, whose first lines (235-240) it includes.
FillScan ==
    /\ pc = "fill"
    /\ scanY < img.h
    /\ IF Pt(scanX, scanY) \in visited
       THEN /\ scanX' = nextScanX /\ scanY' = nextScanY
            /\ UNCHANGED <<visited, cur, queue, pc>>
       ELSE IF isBackground(getGrayscale(img, scanX, scanY))
       THEN /\ visited' = visited \cup {Pt(scanX, scanY)}
            /\ scanX' = nextScanX /\ scanY' = nextScanY
            /\ UNCHANGED <<cur, queue, pc>>
       ELSE IF ~isEdgePixel(img, scanX, scanY)
       THEN /\ cur' = <<Pt(scanX, scanY)>>
            /\ queue' = <<Pt(scanX, scanY)>>
            /\ visited' = visited \cup {Pt(scanX, scanY)}
            /\ pc' = "flood"
            /\ UNCHANGED <<scanX, scanY>>
       ELSE /\ visited' = visited \cup {Pt(scanX, scanY)}
            /\ scanX' = nextScanX /\ scanY' = nextScanY
            /\ UNCHANGED <<cur, queue, pc>>
    /\ UNCHANGED <<img, params, paths, regions, sb, idx>>
    /\ UNCHANGED <<varsSimplify, varsRaster, varsZigZag>>

\* One iteration of floodFill's loop (lines 246-267): the head of the queue
\* is taken and its four neighbours tried; with the queue empty the region
\* is returned and appended, the seed is marked (lines 269, 147, 150) and
\* the scan goes on.
FloodStep ==
    /\ pc = "flood"
    /\ IF Len(queue) > 0
       THEN LET st == floodExpand(img, Head(queue), 1,
                                  [added |-> <<>>, vis |-> visited])
            IN  /\ cur' = cur \o st.added
                /\ queue' = Tail(queue) \o st.added
                /\ visited' = st.vis
                /\ UNCHANGED <<regions, pc, scanX, scanY>>
       ELSE /\ regions' = Append(regions, cur)
            /\ cur' = <<>>
            /\ visited' = visited \cup {Pt(scanX, scanY)}
            /\ scanX' = nextScanX /\ scanY' = nextScanY
            /\ pc' = "fill"
            /\ UNCHANGED queue
    /\ UNCHANGED <<img, params, paths, sb, idx>>
    /\ UNCHANGED <<varsSimplify, varsRaster, varsZigZag>>

\* Line 154: the fill pass returns; the loop of line 23 starts.
FillReturn ==
    /\ pc = "fill"
    /\ scanY >= img.h
    /\ pc' = "emitPaths"
    /\ idx' = 1
    /\ UNCHANGED <<img, params, visited, scanX, scanY, cur, queue, paths,
                   regions, sb>>
    /\ UNCHANGED <<varsSimplify, varsRaster, varsZigZag>>

\* One iteration of the loop of lines 23-43.
EmitPath ==
    /\ pc = "emitPaths"
    /\ idx <= Len(paths)
    /\ sb' = sb \o emitPath(paths[idx], img, params)
    /\ idx' = idx + 1
    /\ UNCHANGED <<img, params, pc, visited, scanX, scanY, cur, queue, paths,
                   regions>>
    /\ UNCHANGED <<varsSimplify, varsRaster, varsZigZag>>

\* The loop of line 23 ends; the loop of line 45 starts.
EmitPathsDone ==
    /\ pc = "emitPaths"
    /\ idx > Len(paths)
    /\ pc' = "emitFill"
    /\ idx' = 1
    /\ UNCHANGED <<img, params, visited, scanX, scanY, cur, queue, paths,
                   regions, sb>>
    /\ UNCHANGED <<varsSimplify, varsRaster, varsZigZag>>

\* One iteration of the loop of lines 45-52.
EmitRegion ==
    /\ pc = "emitFill"
    /\ idx <= Len(regions)
    /\ sb' = sb \o emitRegion(regions[idx], img, params)
    /\ idx' = idx + 1
    /\ UNCHANGED <<img, params, pc, visited, scanX, scanY, cur, queue, paths,
                   regions>>
    /\ UNCHANGED <<varsSimplify, varsRaster, varsZigZag>>

\* Lines 54-55.
Finish ==
    /\ pc = "emitFill"
    /\ idx > Len(regions)
    /\ sb' = sb \o Postamble
    /\ pc' = "done"
    /\ UNCHANGED <<img, params, visited, scanX, scanY, cur, queue, paths,
                   regions, idx>>
    /\ UNCHANGED <<varsSimplify, varsRaster, varsZigZag>>

NextConvert ==
    \/ Begin
    \/ OutlineScan
    \/ TraceStep
    \/ OutlineReturn
    \/ FillScan
    \/ FloodStep
    \/ FillReturn
    \/ EmitPath
    \/ EmitPathsDone
    \/ EmitRegion
    \/ Finish

SpecConvert == InitConvert /\ [][NextConvert]_vars

\* ------------------------------------------------------------------------
\* SpecRaster: processRasterImage run twice over the same decoded image.
\* ------------------------------------------------------------------------
\* Colours as Color.RGBA() returns them: 16-bit, alpha-premultiplied.
Transparent == <<0, 0, 0, 0>>
FaintBlack  == <<0, 0, 0, 16384>>                 \* alpha below the cutoff
OpaqueBlack == <<0, 0, 0, 65535>>
NearBlack   == <<4112, 4112, 4112, 65535>>        \* #101010
OpaqueWhite == <<65535, 65535, 65535, 65535>>
Yellow      == <<65535, 56540, 0, 65535>>         \* #ffdc00

Palette == {Transparent, FaintBlack, OpaqueBlack, NearBlack, OpaqueWhite, Yellow}

RunLengths == {1, MaxRun}

RunOf(px, n) == [i \in 1..n |-> px]

Runs == {RunOf(px, n) : px \in Palette, n \in RunLengths}

RasterImages ==
    UNION {{Concat(rs) : rs \in [1..k -> Runs]} : k \in 1..MaxRuns}

InitRaster ==
    /\ IdleSimplify
    /\ IdleConvert
    /\ IdleZigZag
    /\ src \in RasterImages
    /\ revision \in {"part_002", "part_003"}
    /\ rpc = "start"
    /\ colorHistogram = <<>>
    /\ counts = [total |-> 0, dark |-> 0]
    /\ dominantColors = <<>>
    /\ dst = newGray(src)
    /\ run = 1
    /\ prevDominant = <<>>
    /\ prevDst = <<>>

\* The first loop (132-155 of part_002, 132-147 of part_003).
CountPixels ==
    /\ rpc = "start"
    /\ colorHistogram' = histogramOf(src)
    /\ counts' = [total |-> Cardinality(countedPixels(src)),
                  dark |-> IF revision = "part_002" THEN darkCountOf(src) ELSE 0]
    /\ rpc' = "counted"
    /\ UNCHANGED <<src, revision, dominantColors, dst, run, prevDominant, prevDst>>
    /\ UNCHANGED <<varsSimplify, varsConvert, varsZigZag>>

\* The call of findDominantColors; the range over the map yields the keys
\* in an order the language leaves open.
FindDominant ==
    /\ rpc = "counted"
    /\ \E order \in iterationOrders(colorHistogram) :
          dominantColors' = findDominantColors(colorHistogram, order, DominantCount)
    /\ rpc' = "ranked"
    /\ UNCHANGED <<src, revision, colorHistogram, counts, dst, run,
                   prevDominant, prevDst>>
    /\ UNCHANGED <<varsSimplify, varsConvert, varsZigZag>>

\* The rest of processRasterImage: the second loop, or the early return of
\* part_003.
Classify ==
    /\ rpc = "ranked"
    /\ dst' = IF revision = "part_002"
              THEN classify002(src, colorHistogram, counts, dominantColors)
              ELSE classify003(src, counts, dominantColors)
    /\ rpc' = "done"
    /\ UNCHANGED <<src, revision, colorHistogram, counts, dominantColors, run,
                   prevDominant, prevDst>>
    /\ UNCHANGED <<varsSimplify, varsConvert, varsZigZag>>

\* The same image is loaded a second time.
Rerun ==
    /\ rpc = "done"
    /\ run = 1
    /\ prevDominant' = dominantColors
    /\ prevDst' = dst
    /\ run' = 2
    /\ rpc' = "start"
    /\ colorHistogram' = <<>>
    /\ counts' = [total |-> 0, dark |-> 0]
    /\ dominantColors' = <<>>
    /\ dst' = newGray(src)
    /\ UNCHANGED <<src, revision>>
    /\ UNCHANGED <<varsSimplify, varsConvert, varsZigZag>>

NextRaster ==
    \/ CountPixels
    \/ FindDominant
    \/ Classify
    \/ Rerun

SpecRaster == InitRaster /\ [][NextRaster]_vars

\* ------------------------------------------------------------------------
\* SpecZigZag: fillOptimizedZigZag (with the getBoundingBox call of line
\* 50) on one region, one step per scanline.
\* ------------------------------------------------------------------------
\* The regions are 4-connected shapes of at least MinRegionPoints points, as
\* ConvertToGCode passes them on: ZWidth wide, full rows between the
\* scanlines, and on each scanline one of the row patterns below.
ZMid == ZWidth \div 2

RowPatterns ==
    { 0..(ZWidth - 1),                                   \* a full row
      (ZMid - 1)..(ZMid + 1),                            \* a neck of 3 pixels
      (ZMid - 1)..(ZMid + 2),                            \* a neck of 4 pixels
      (0..(ZMid + 1)) \cup ((ZMid + 4)..(ZWidth - 1)),   \* two long runs
      (0..2) \cup (4..7) \cup (9..(ZWidth - 1)) }        \* short and long runs

\* Rows 0, LineSpacing, 2*LineSpacing, ... carry rows[1], rows[2], ...; the
\* rows between them and tailRows more rows below the last are full.
ShapeRows(rows, tailRows) ==
    [k \in 1..((Len(rows) - 1) * LineSpacing + tailRows + 1) |->
        IF (k - 1) % LineSpacing = 0 /\ (k - 1) \div LineSpacing < Len(rows)
        THEN rows[(k - 1) \div LineSpacing + 1]
        ELSE 0..(ZWidth - 1)]

\* The points of a shape, row by row, moved by (ox, oy).
RECURSIVE RowPoints(_, _, _)
RowPoints(xs, y, ox) ==
    IF xs = {} THEN <<>>
    ELSE LET x == SetMin(xs)
         IN  <<Pt(x + ox, y)>> \o RowPoints(xs \ {x}, y, ox)

ShapePoints(shape, ox, oy) ==
    Concat([k \in 1..Len(shape) |-> RowPoints(shape[k], k - 1 + oy, ox)])

\* A shape and where its top left corner lies: one ending on a scanline, at
\* the origin, and one ending two rows below a scanline, moved by (3, 2).
ZPlacements == {[tailRows |-> 0, ox |-> 0, oy |-> 0], [tailRows |-> 2, ox |-> 3, oy |-> 2]}

ZRegions ==
    {ShapePoints(ShapeRows(rows, pl.tailRows), pl.ox, pl.oy) :
        rows \in [1..ZLines -> RowPatterns], pl \in ZPlacements}

InitZigZag ==
    /\ IdleSimplify
    /\ IdleConvert
    /\ IdleRaster
    /\ zPoints \in ZRegions
    /\ zIm = [w |-> ZWidth + 4, h |-> LineSpacing * ZLines + 4]
    /\ zPr = Params(100, 80, 10)
    /\ Len(zPoints) >= MinRegionPoints
    /\ zBox = [minX |-> 0, minY |-> 0, maxX |-> 0, maxY |-> 0]
    /\ zY = 0
    /\ zLines = <<>>
    /\ zSegments = <<>>
    /\ zOut = <<>>
    /\ zpc = "start"

\* Line 50 and lines 299-309: the bounding box is taken and the scan starts
\* at its top row.
ZigZagStart ==
    /\ zpc = "start"
    /\ zBox' = getBoundingBox(zPoints)
    /\ zY' = getBoundingBox(zPoints).minY
    /\ zpc' = "scan"
    /\ UNCHANGED <<zPoints, zIm, zPr, zLines, zSegments, zOut>>
    /\ UNCHANGED <<varsSimplify, varsConvert, varsRaster>>

\* A segment of scanline y as the model records it.
Built(seg, y, fromRight) ==
    [startX |-> seg.startX, endX |-> seg.endX, y |-> y,
     fromRight |-> fromRight, emitted |-> segmentEmitted(seg)]

\* One iteration of the loop of line 309 (lines 310-357).
ZigZagLine ==
    /\ zpc = "scan"
    /\ zY <= zBox.maxY
    /\ LET segments == lineSegments(pointMap(zPoints), zY, zBox)
           fromRight == fromRightAt(zY, zBox.minY)
       IN  /\ zLines' = Append(zLines, [y |-> zY, fromRight |-> fromRight])
           /\ zSegments' = zSegments \o
                 [k \in 1..Len(segments) |-> Built(segments[k], zY, fromRight)]
           /\ zOut' = zOut \o emitSegments(segments, zY, zIm, zPr)
    /\ zY' = zY + LineSpacing
    /\ UNCHANGED <<zPoints, zIm, zPr, zBox, zpc>>
    /\ UNCHANGED <<varsSimplify, varsConvert, varsRaster>>

\* The loop of line 309 ends and the function returns.
ZigZagReturn ==
    /\ zpc = "scan"
    /\ zY > zBox.maxY
    /\ zpc' = "done"
    /\ UNCHANGED <<zPoints, zIm, zPr, zBox, zY, zLines, zSegments, zOut>>
    /\ UNCHANGED <<varsSimplify, varsConvert, varsRaster>>

NextZigZag ==
    \/ ZigZagStart
    \/ ZigZagLine
    \/ ZigZagReturn

SpecZigZag == InitZigZag /\ [][NextZigZag]_vars

\* C1: simplifyPath preserves both endpoints: whenever it has returned, the
\* first point of the output is the first point of the input and the last
\* point of the output is the last point of the input, for every input of
\* length >= 1 and every tolerance.
C1_EndpointsPreserved ==
    spc = "done" =>
        /\ Len(simplified) >= 1
        /\ simplified[1] = inPoints[1]
        /\ Last(simplified) = Last(inPoints)

\* ------------------------------------------------------------------------
\* Claims about the two passes and the emitted program (SpecConvert)
\* ------------------------------------------------------------------------
PassesDone == pc \in {"emitPaths", "emitFill", "done"}

Pixels == Grid(img.w, img.h)

IsDark(p) == getGrayscale(img, p.x, p.y) < 230

PathPoints == UNION {SeqToSet(paths[i]) : i \in 1..Len(paths)}

RegionPoints == UNION {SeqToSet(regions[i]) : i \in 1..Len(regions)}

\* C2: after both passes every dark pixel is in exactly one of the two
\* outputs (some boundary path or some fill region, not both, not neither),
\* and a region holds interior pixels only.
C2_BoundaryXorInterior ==
    PassesDone =>
        /\ \A p \in Pixels :
              IsDark(p) => ((p \in PathPoints) # (p \in RegionPoints))
        /\ \A p \in RegionPoints : ~isEdgePixel(img, p.x, p.y)

\* The points collected so far by the boundary pass and by the fill pass,
\* in the order they were appended.
OutlineCollected == Concat(paths) \o (IF pc = "trace" THEN cur ELSE <<>>)

FillCollected == Concat(regions) \o (IF pc = "flood" THEN cur ELSE <<>>)

NoDuplicates(s) == Cardinality(SeqToSet(s)) = Len(s)

AllDark(s) == \A i \in 1..Len(s) : IsDark(s[i])

\* The points of s2 beyond the length of s1.
AddedBy(s1, s2) == {s2[i] : i \in (Len(s1) + 1)..Len(s2)}

C3Step ==
    /\ NoDuplicates(OutlineCollected') /\ AllDark(OutlineCollected')
    /\ NoDuplicates(FillCollected') /\ AllDark(FillCollected')
    /\ \A p \in AddedBy(OutlineCollected, OutlineCollected') \cup
                AddedBy(FillCollected, FillCollected') :
          p \notin visited /\ p \in visited'
    /\ (pc = "outline" /\ pc' = "fill") \/ visited \subseteq visited'

\* C3: within one pass no pixel is collected twice: at every step the points
\* of the boundary paths are pairwise distinct and dark, and so are the
\* points of the fill regions; a point is added only while its visited flag
\* is false, the flag is set by that step, and no step of a pass clears a
\* flag (the fill pass starts with its own grid).
C3_NoPixelTwice == [][C3Step]_vars

C3_Witness ==
    /\ pc = "done"
    /\ \E i \in 1..Len(paths) : Len(paths[i]) >= 5
    /\ Len(regions) >= 1
    /\ Len(regions[1]) >= 4

\* The image is one filled rectangle of dark pixels with background all
\* around it; RectBox is that rectangle.
RectBox ==
    [minX |-> SetMin({p.x : p \in img.dark}), minY |-> SetMin({p.y : p \in img.dark}),
     maxX |-> SetMax({p.x : p \in img.dark}), maxY |-> SetMax({p.y : p \in img.dark})]

RectW == RectBox.maxX - RectBox.minX + 1
RectH == RectBox.maxY - RectBox.minY + 1

IsLoneRect ==
    /\ img.dark # {}
    /\ \A p \in Pixels : IsDark(p) <=> p \in img.dark
    /\ img.dark = Rect(RectBox.minX, RectBox.minY, RectBox.maxX, RectBox.maxY)
    /\ RectBox.minX >= 1 /\ RectBox.minY >= 1
    /\ RectBox.maxX <= img.w - 2 /\ RectBox.maxY <= img.h - 2

RectInterior ==
    Rect(RectBox.minX + 1, RectBox.minY + 1, RectBox.maxX - 1, RectBox.maxY - 1)

IsEndToEnd ==
    /\ img.w = 20 /\ img.h = 20
    /\ img.fg = <<0, 0, 0>> /\ img.bg = <<65535, 65535, 65535>>
    /\ img.dark # {}
    /\ img.dark = Rect(RectBox.minX, RectBox.minY, RectBox.maxX, RectBox.maxY)
    /\ RectW = 10 /\ RectH = 10
    /\ params = [targetWidth |-> 50, targetHeight |-> 50, offset |-> 0,
                 threshold |-> 128]

\* The perimeter of the square in the order the greedy trace walks it: the
\* top row left to right, the right column down, the bottom row right to
\* left, the left column up.
Perimeter ==
    LET b == RectBox
    IN  [i \in 1..RectW |-> Pt(b.minX + i - 1, b.minY)] \o
        [i \in 1..(RectH - 1) |-> Pt(b.maxX, b.minY + i)] \o
        [i \in 1..(RectW - 1) |-> Pt(b.maxX - i, b.maxY)] \o
        [i \in 1..(RectH - 2) |-> Pt(b.minX, b.maxY - i)]

\* The lines of the program that are G0 or G1 moves, in order, but for the
\* final return to the origin.
RECURSIVE MovesOf(_)
MovesOf(prog) ==
    IF prog = <<>> THEN <<>>
    ELSE IF Head(prog).op \in {"G0", "G1"}
         THEN <<Head(prog)>> \o MovesOf(Tail(prog))
         ELSE MovesOf(Tail(prog))

PathMoves == MovesOf(SubSeq(sb, 1, Len(sb) - 1))

CountOp(prog, op) == Cardinality({i \in 1..Len(prog) : prog[i].op = op})

\* Move m is at perimeter pixel number i, scaled by 2.5.
MoveAt(m, i) ==
    /\ m.x = Perimeter[i].x * 2500
    /\ m.y = Perimeter[i].y * 2500

PerimeterIndex(m) == CHOOSE i \in 1..Len(Perimeter) : MoveAt(m, i)

\* C5: in the end-to-end case the program has M3 S1000 exactly once; its
\* moves are one G0 followed by G1s, each at a perimeter pixel of the
\* square times 2.5, in the order of the greedy trace; and it ends with M5
\* followed by G0 X0 Y0.
C5_EndToEnd ==
    (pc = "done" /\ IsEndToEnd) =>
        /\ CountOp(sb, "M3 S1000") = 1
        /\ Len(paths) = 1
        /\ Len(PathMoves) >= 2
        /\ \A k \in 1..Len(PathMoves) :
              /\ PathMoves[k].op = (IF k = 1 THEN "G0" ELSE "G1")
              /\ \E i \in 1..Len(Perimeter) : MoveAt(PathMoves[k], i)
        /\ \A k \in 1..(Len(PathMoves) - 1) :
              PerimeterIndex(PathMoves[k]) < PerimeterIndex(PathMoves[k + 1])
        /\ sb[Len(sb) - 1] = [op |-> "M5", x |-> 0, y |-> 0]
        /\ sb[Len(sb)] = [op |-> "G0", x |-> 0, y |-> 0]

C5_Witness ==
    /\ pc = "done" /\ IsEndToEnd
    /\ RectBox.minX = 5 /\ RectBox.minY = 5
    /\ Len(PathMoves) > 10

AllBackground == \A p \in Pixels : getGrayscale(img, p.x, p.y) >= 230

Ops(prog) == [i \in 1..Len(prog) |-> prog[i].op]

\* C10: for an all-background grid both passes return empty lists and the
\* program is the preamble immediately followed by M5 and G0 X0 Y0: no M3
\* and no move but the final return to the origin.
C10_AllBackground ==
    AllBackground =>
        /\ paths = <<>>
        /\ regions = <<>>
        /\ pc = "done" =>
              /\ Ops(sb) = <<"G21", "G90", "M5", "G0 F3000", "G1 F1500", "M5", "G0">>
              /\ Last(sb).x = 0 /\ Last(sb).y = 0

C10_Witness ==
    /\ AllBackground
    /\ pc = "done"
    /\ img.w * img.h >= 6
    /\ img.bg = <<59110, 59110, 59110>>

\* The tool commands of the program.
IsToolCmd(c) == c.op \in {"M3 S1000", "M5"}

\* The index of the most recent tool command before line i (0 if none).
LastToolBefore(prog, i) ==
    LET S == {j \in 1..(i - 1) : IsToolCmd(prog[j])}
    IN  IF S = {} THEN 0 ELSE SetMax(S)

\* Line i of the program is issued while the tool is off.
ToolOffAt(prog, i) ==
    LET j == LastToolBefore(prog, i)
    IN  j # 0 /\ prog[j].op = "M5"

\* C12: every rapid move G0 Xn Yn written so far is issued while the tool
\* is off: the most recent tool command before it is M5, never M3 S1000.
\* This covers the move to each path's first point, the move to each fill
\* segment's start and the final G0 X0 Y0.
C12_RapidMovesToolOff ==
    \A i \in 1..Len(sb) : sb[i].op = "G0" => ToolOffAt(sb, i)

\* ------------------------------------------------------------------------
\* Claims about the raster classification (SpecRaster)
\* ------------------------------------------------------------------------
Ranked == rpc \in {"ranked", "done"}

\* Bucket a ranks before bucket b: more pixels, or as many and a smaller
\* quantized colour.
RanksFirst(a, b) ==
    a.count > b.count \/ (a.count = b.count /\ a.color < b.color)

HistogramBuckets ==
    {Bucket(k, colorHistogram[k]) : k \in DOMAIN colorHistogram}

\* d is the top of the histogram in that order.
IsCanonicalTop(d) ==
    /\ Len(d) = (IF Cardinality(HistogramBuckets) > 3 THEN 3
                 ELSE Cardinality(HistogramBuckets))
    /\ \A i \in 1..Len(d) : d[i] \in HistogramBuckets
    /\ \A i, j \in 1..Len(d) : i < j => RanksFirst(d[i], d[j])
    /\ \A b \in HistogramBuckets \ SeqToSet(d) :
          \A i \in 1..Len(d) : RanksFirst(d[i], b)

\* C6: the ranking does not depend on the order in which the histogram map
\* is iterated: findDominantColors returns the buckets by descending count,
\* equal counts by ascending quantized colour, and a second run over the
\* same histogram returns the same list in the same order.
C6_RankingDeterministic ==
    /\ Ranked => IsCanonicalTop(dominantColors)
    /\ (Ranked /\ run = 2) => dominantColors = prevDominant

\* C7: with an empty histogram (no pixel reaches the alpha cutoff)
\* processRasterImage returns an all-background mask: every cell 255.
C7_EmptyHistogramIsBackground ==
    (rpc = "done" /\ DOMAIN colorHistogram = {}) =>
        \A i \in 1..Len(dst) : dst[i] = 255

\* The band nearest-dominant-colour membership gives a quantized colour:
\* 0 within the per-channel distance of the first bucket, else 127 within
\* it of the second, else 255.
BandOf(key, first, second) ==
    IF isColorSimilar(key, first.color) THEN 0
    ELSE IF isColorSimilar(key, second.color) THEN 127
    ELSE 255

\* Dominant-colour mode of the nearest-dominant-colour revision: the run
\* has returned and the top two buckets cover more than 70% of the counted
\* pixels.
DistinctMode ==
    /\ revision = "part_003"
    /\ rpc = "done"
    /\ Len(dominantColors) >= 2
    /\ 10 * (dominantColors[1].count + dominantColors[2].count) > 7 * counts.total

\* C11: in dominant-colour mode every pixel that is not fully transparent
\* gets the band of its quantized colour: 0 if within the per-channel
\* distance of the first-ranked bucket, otherwise 127 if within it of the
\* second-ranked bucket, otherwise 255, whatever the second-ranked bucket
\* is, the one with key 0 (black) included.
C11_BandsByMembership ==
    DistinctMode =>
        \A i \in 1..Len(src) :
            src[i][4] # 0 =>
                dst[i] = BandOf(pixelKey(src[i]), dominantColors[1], dominantColors[2])

\* ------------------------------------------------------------------------
\* Claims about the zig-zag fill (SpecZigZag)
\* ------------------------------------------------------------------------
\* The scanlines are taken from min-Y on in steps of the line spacing, up to
\* max-Y; the first is scanned left to right and each next one the other
\* way; every segment carries the direction of its scanline, and the
\* segments of one scanline follow each other in that direction.
ScanlinesAlternate ==
    /\ \A k \in 1..Len(zLines) :
          /\ zLines[k].y = zBox.minY + 3 * (k - 1)
          /\ zLines[k].y <= zBox.maxY
          /\ zLines[k].fromRight = (k % 2 = 0)
    /\ zpc = "done" => zBox.minY + 3 * Len(zLines) > zBox.maxY
    /\ \A i \in 1..Len(zSegments) :
          \E k \in 1..Len(zLines) :
             /\ zLines[k].y = zSegments[i].y
             /\ zLines[k].fromRight = zSegments[i].fromRight
    /\ \A i \in 1..(Len(zSegments) - 1) :
          /\ zSegments[i].y <= zSegments[i + 1].y
          /\ zSegments[i].y = zSegments[i + 1].y =>
                IF zSegments[i].fromRight
                THEN zSegments[i + 1].endX < zSegments[i].startX
                ELSE zSegments[i].endX < zSegments[i + 1].startX

\* The emitted segments, in the order they were written.
RECURSIVE EmittedOf(_)
EmittedOf(segs) ==
    IF segs = <<>> THEN <<>>
    ELSE IF Head(segs).emitted THEN <<Head(segs)>> \o EmittedOf(Tail(segs))
         ELSE EmittedOf(Tail(segs))

Emitted == EmittedOf(zSegments)

\* C8 as claimed: the scanlines alternate direction from min-Y on in steps
\* of 3, and so any two consecutively emitted segments on different
\* scanlines were produced with opposite scan directions.
C8_ConsecutiveSegmentsAlternate ==
    /\ ScanlinesAlternate
    /\ \A i \in 1..(Len(Emitted) - 1) :
          Emitted[i].y # Emitted[i + 1].y =>
             Emitted[i].fromRight # Emitted[i + 1].fromRight

\* C8 as amended: the scanlines alternate direction from min-Y on in steps
\* of 3, and so any two emitted segments on scanlines one line spacing apart
\* were produced with opposite scan directions (two consecutively emitted
\* segments further apart, with a scanline between them that yielded no
\* segment long enough to emit, need not be).
C8_AdjacentScanlinesAlternate ==
    /\ ScanlinesAlternate
    /\ \A i, j \in 1..Len(Emitted) :
          Emitted[j].y = Emitted[i].y + 3 =>
             Emitted[i].fromRight # Emitted[j].fromRight

C8_Witness ==
    /\ zpc = "done"
    /\ Len(zLines) >= 3
    /\ \E i \in 1..(Len(Emitted) - 1) :
          /\ Emitted[i + 1].y = Emitted[i].y + 3
          /\ Emitted[i].fromRight
    /\ \E i \in 1..(Len(zSegments) - 1) :
          /\ zSegments[i].y = zSegments[i + 1].y
          /\ zSegments[i].fromRight

\* C9: every segment built, in either scan direction, lies inside the
\* region's bounding box (minX <= startX <= endX <= maxX, minY <= y <= maxY)
\* and is a run of member pixels: every (x, y) with startX <= x <= endX is a
\* point of the region.
C9_SegmentsInsideRegion ==
    \A i \in 1..Len(zSegments) :
       LET seg == zSegments[i]
       IN  /\ zBox.minX <= seg.startX
           /\ seg.startX <= seg.endX
           /\ seg.endX <= zBox.maxX
           /\ zBox.minY <= seg.y /\ seg.y <= zBox.maxY
           /\ {Pt(x, seg.y) : x \in seg.startX..seg.endX} \subseteq SeqToSet(zPoints)

C9_Witness ==
    /\ zpc = "done"
    /\ \E i \in 1..Len(zSegments) :
          /\ zSegments[i].fromRight
          /\ zSegments[i].startX > zBox.minX
          /\ zSegments[i].endX < zBox.maxX
    /\ \E i \in 1..Len(zSegments) :
          /\ zSegments[i].fromRight
          /\ zSegments[i].startX = zBox.minX
    /\ \E i \in 1..Len(zSegments) :
          /\ ~zSegments[i].fromRight
          /\ zSegments[i].endX = zBox.maxX
          /\ zSegments[i].startX > zBox.minX

====
